---- MODULE Spec2Model ----
(***************************************************************************)
(* Model of the quote handler of cvetok-orders (src/api/quote.js): the     *)
(* request gates, body parsing, payload validation, line-item mapping,     *)
(* draft-order assembly and the single outbound call.                      *)
(*                                                                         *)
(* JavaScript values are modelled by records of one shape,                 *)
(*   [t, n, s, kids]                                                       *)
(* t the type tag ("undef", "null", "bool", "num", "nan", "str", "obj",    *)
(* "arr"), n the number (or 0/1 for a boolean), s the text of a string as  *)
(* a sequence of chunks (input strings are sequences of one-character      *)
(* chunks), kids the members of an object or the elements of an array as   *)
(* a sequence of [k, v] pairs in insertion order.  Numbers are integers:   *)
(* fractional amounts, Infinity and exponent/hex notation are outside the  *)
(* model.                                                                  *)
(***************************************************************************)
EXTENDS Integers, Sequences, FiniteSets, TLC

VARIABLES domainSet, tokenSet, pc, method, body, payload, lineItems, draft,
          sent, calls, upstream, response, logged, mItem, mLine

vars == <<domainSet, tokenSet, pc, method, body, payload, lineItems, draft,
          sent, calls, upstream, response, logged, mItem, mLine>>

handlerVars == <<domainSet, tokenSet, pc, method, body, payload, lineItems,
                 draft, sent, calls, upstream, response, logged>>

----------------------------------------------------------------------------
(* JavaScript values *)

Val(t, n, s, kids) == [t |-> t, n |-> n, s |-> s, kids |-> kids]
Undef == Val("undef", 0, <<>>, <<>>)
Null == Val("null", 0, <<>>, <<>>)
NaN == Val("nan", 0, <<>>, <<>>)
Bool(b) == Val("bool", IF b THEN 1 ELSE 0, <<>>, <<>>)
Num(i) == Val("num", i, <<>>, <<>>)
Str(cs) == Val("str", 0, cs, <<>>)
KV(k, v) == [k |-> k, v |-> v]
Obj(kids) == Val("obj", 0, <<>>, kids)
Arr(elems) == Val("arr", 0, <<>>, [i \in 1..Len(elems) |-> KV("", elems[i])])

Elems(a) == [i \in 1..Len(a.kids) |-> a.kids[i].v]
Keys(o) == {o.kids[i].k : i \in 1..Len(o.kids)}

\* JS truthiness: undefined, null, false, 0, NaN and "" are falsy.
Truthy(v) ==
  CASE v.t \in {"undef", "null", "nan"} -> FALSE
    [] v.t \in {"bool", "num"} -> v.n # 0
    [] v.t = "str" -> v.s # <<>>
    [] OTHER -> TRUE

\* typeof
TypeOf(v) ==
  CASE v.t = "undef" -> "undefined"
    [] v.t \in {"null", "obj", "arr"} -> "object"
    [] v.t = "bool" -> "boolean"
    [] v.t \in {"num", "nan"} -> "number"
    [] OTHER -> "string"

\* A property read o.k throws a TypeError on undefined and null.
Throws(o) == o.t \in {"undef", "null"}

\* o.k on a value that does not throw: an own member of an object, else undefined.
Get(o, k) ==
  LET idx == {i \in 1..Len(o.kids) : o.kids[i].k = k}
  IN IF o.t = "obj" /\ idx # {} THEN o.kids[CHOOSE i \in idx : \A j \in idx : j <= i].v
     ELSE Undef

\* o?.k
OptGet(o, k) == IF Throws(o) THEN Undef ELSE Get(o, k)

\* a ?? b
Nullish(a, b) == IF a.t \in {"undef", "null"} THEN b ELSE a

\* a || b
OrElse(a, b) == IF Truthy(a) THEN a ELSE b

\* destructuring default: { x = d } = o
Default(v, d) == IF v.t = "undef" THEN d ELSE v

----------------------------------------------------------------------------
(* Text and numbers *)

Digits == <<"0", "1", "2", "3", "4", "5", "6", "7", "8", "9">>
DigitSet == {Digits[i] : i \in 1..10}
DigitVal(c) == (CHOOSE i \in 1..10 : Digits[i] = c) - 1

RECURSIVE NatToChars(_)
NatToChars(n) ==
  IF n < 10 THEN <<Digits[n + 1]>>
  ELSE NatToChars(n \div 10) \o <<Digits[(n % 10) + 1]>>

IntToChars(i) == IF i < 0 THEN <<"-">> \o NatToChars(-i) ELSE NatToChars(i)

RECURSIVE DigitsToNat(_)
DigitsToNat(cs) ==
  IF cs = <<>> THEN 0
  ELSE 10 * DigitsToNat(SubSeq(cs, 1, Len(cs) - 1)) + DigitVal(cs[Len(cs)])

RECURSIVE TrimLeft(_)
TrimLeft(cs) == IF cs # <<>> /\ Head(cs) = " " THEN TrimLeft(Tail(cs)) ELSE cs

RECURSIVE TrimRight(_)
TrimRight(cs) ==
  IF cs # <<>> /\ cs[Len(cs)] = " " THEN TrimRight(SubSeq(cs, 1, Len(cs) - 1)) ELSE cs

\* String.prototype.trim
Trim(cs) == TrimRight(TrimLeft(cs))

\* Number(string): blank is 0, an optionally signed run of digits is that integer,
\* anything else is NaN.
StrToNumber(cs) ==
  LET t == Trim(cs)
      signed == t # <<>> /\ Head(t) \in {"-", "+"}
      ds == IF signed THEN Tail(t) ELSE t
  IN IF t = <<>> THEN Num(0)
     ELSE IF ds # <<>> /\ \A i \in 1..Len(ds) : ds[i] \in DigitSet
          THEN Num(IF Head(t) = "-" THEN 0 - DigitsToNat(ds) ELSE DigitsToNat(ds))
          ELSE NaN

\* String(value), as `${value}` computes it; array elements null and undefined join as "".
RECURSIVE ToStr(_)
RECURSIVE JoinElems(_, _)
ToStr(v) ==
  CASE v.t = "undef" -> <<"undefined">>
    [] v.t = "null" -> <<"null">>
    [] v.t = "nan" -> <<"NaN">>
    [] v.t = "bool" -> IF v.n = 1 THEN <<"true">> ELSE <<"false">>
    [] v.t = "num" -> IntToChars(v.n)
    [] v.t = "str" -> v.s
    [] v.t = "obj" -> <<"[object Object]">>
    [] OTHER -> JoinElems(v.kids, 1)
JoinElems(kids, i) ==
  IF i > Len(kids) THEN <<>>
  ELSE (IF kids[i].v.t \in {"undef", "null"} THEN <<>> ELSE ToStr(kids[i].v))
       \o (IF i < Len(kids) THEN <<",">> \o JoinElems(kids, i + 1) ELSE <<>>)

\* Number(value)
ToNumber(v) ==
  CASE v.t = "undef" -> NaN
    [] v.t = "null" -> Num(0)
    [] v.t = "bool" -> Num(v.n)
    [] v.t \in {"num", "nan"} -> v
    [] OTHER -> StrToNumber(ToStr(v))

\* (x).toFixed(2) for x = cents / 100 with integer cents
ToFixed2OfHundredth(cents) ==
  LET a == IF cents < 0 THEN 0 - cents ELSE cents
  IN (IF cents < 0 THEN <<"-">> ELSE <<>>)
     \o NatToChars(a \div 100) \o <<".">>
     \o <<Digits[((a % 100) \div 10) + 1], Digits[(a % 10) + 1]>>

----------------------------------------------------------------------------
(* src/api/quote.js: formatPrice, mapProperties, mapLineItem *)

formatPrice(cents) ==
  IF TypeOf(cents) # "number" THEN Undef
  ELSE IF cents.t = "nan" THEN Str(<<"NaN">>)
  ELSE Str(ToFixed2OfHundredth(cents.n))

\* Object.entries: the members of an object, the indexed elements of an array.
Entries(o) ==
  IF o.t = "arr" THEN [i \in 1..Len(o.kids) |-> KV(ToString(i - 1), o.kids[i].v)]
  ELSE o.kids

KeepsProperty(e) == e.v.t \notin {"null", "undef"} /\ Trim(ToStr(e.v)) # <<>>

mapProperties(properties) ==
  IF ~Truthy(properties) \/ TypeOf(properties) # "object" THEN Undef
  ELSE LET entries == SelectSeq(Entries(properties), KeepsProperty)
       IN IF Len(entries) = 0 THEN Undef
          ELSE Arr([i \in 1..Len(entries) |->
                      Obj(<<KV("name", Str(<<entries[i].k>>)),
                            KV("value", Str(ToStr(entries[i].v)))>>)])

CustomItem == Str(<<"Custom item">>)

mapQuantity(item) == OrElse(ToNumber(Get(item, "quantity")), Num(1))

mapTitle(item) == OrElse(Get(item, "product_title"), OrElse(Get(item, "title"), CustomItem))

mapCoercedPrice(item) == ToNumber(Nullish(Get(item, "final_price"), Get(item, "price")))

mapProductPrice(item) ==
  IF Truthy(Get(item, "price")) THEN <<KV("price", formatPrice(mapCoercedPrice(item)))>>
  ELSE <<>>

mapCustomPrice(item) ==
  LET price == mapCoercedPrice(item)
  IN IF price.t # "nan" THEN <<KV("price", formatPrice(price))>> ELSE <<>>

\* mapBranch with the product test ahead of the variant test
mapBranchProductFirst(item) ==
  IF Truthy(Get(item, "product_id"))
  THEN <<KV("product_id", Get(item, "product_id"))>>
       \o mapProductPrice(item) \o <<KV("title", mapTitle(item))>>
  ELSE IF Truthy(Get(item, "variant_id"))
       THEN <<KV("variant_id", Get(item, "variant_id"))>>
       ELSE <<KV("title", mapTitle(item))>> \o mapCustomPrice(item)

mapBranch(item) ==
  IF Truthy(Get(item, "variant_id")) THEN <<KV("variant_id", Get(item, "variant_id"))>>
  ELSE IF Truthy(Get(item, "product_id"))
       THEN <<KV("product_id", Get(item, "product_id"))>>
            \o mapProductPrice(item) \o <<KV("title", mapTitle(item))>>
       ELSE <<KV("title", mapTitle(item))>> \o mapCustomPrice(item)

mapLineItem(item) ==
  IF ~Truthy(item) THEN Null
  ELSE LET properties == mapProperties(Get(item, "properties"))
       IN Obj(<<KV("quantity", mapQuantity(item))>>
              \o (IF Truthy(properties) THEN <<KV("properties", properties)>> ELSE <<>>)
              \o mapBranch(item))

----------------------------------------------------------------------------
(* JSON text.  A JSON text is a sequence of tokens [tk, v]: the punctuation  *)
(* "{", "}", "[", "]", ":", ",", white space "ws", and "lit" carrying a      *)
(* scalar (null, a boolean, a number or a string).  A member name is a       *)
(* string literal of one chunk.                                              *)

Punct(c) == [tk |-> c, v |-> Null]
Lit(v) == [tk |-> "lit", v |-> v]
IsSpace(tok) == tok.tk = "ws"
NotSpace(tok) == ~IsSpace(tok)

ParseFail == [ok |-> FALSE, val |-> Undef, rest |-> <<>>]
ParseOk(v, rest) == [ok |-> TRUE, val |-> v, rest |-> rest]

\* A later member of the same name replaces the earlier one's value.
SetMember(kids, k, v) ==
  IF \E i \in 1..Len(kids) : kids[i].k = k
  THEN [i \in 1..Len(kids) |-> IF kids[i].k = k THEN KV(k, v) ELSE kids[i]]
  ELSE Append(kids, KV(k, v))

RECURSIVE ParseValue(_)
RECURSIVE ParseMembers(_, _)
RECURSIVE ParseElements(_, _)
ParseValue(ts) ==
  IF ts = <<>> THEN ParseFail
  ELSE CASE Head(ts).tk = "lit" -> ParseOk(Head(ts).v, Tail(ts))
         [] Head(ts).tk = "{" ->
              IF Len(ts) >= 2 /\ ts[2].tk = "}" THEN ParseOk(Obj(<<>>), SubSeq(ts, 3, Len(ts)))
              ELSE ParseMembers(Tail(ts), <<>>)
         [] Head(ts).tk = "[" ->
              IF Len(ts) >= 2 /\ ts[2].tk = "]" THEN ParseOk(Arr(<<>>), SubSeq(ts, 3, Len(ts)))
              ELSE ParseElements(Tail(ts), <<>>)
         [] OTHER -> ParseFail
ParseMembers(ts, acc) ==
  IF Len(ts) < 3 \/ ts[1].tk # "lit" \/ ts[1].v.t # "str" \/ Len(ts[1].v.s) # 1
     \/ ts[2].tk # ":"
  THEN ParseFail
  ELSE LET r == ParseValue(SubSeq(ts, 3, Len(ts)))
           kids == SetMember(acc, ts[1].v.s[1], r.val)
       IN IF ~r.ok \/ r.rest = <<>> THEN ParseFail
          ELSE CASE Head(r.rest).tk = "}" -> ParseOk(Obj(kids), Tail(r.rest))
                 [] Head(r.rest).tk = "," -> ParseMembers(Tail(r.rest), kids)
                 [] OTHER -> ParseFail
ParseElements(ts, acc) ==
  LET r == ParseValue(ts)
      elems == Append(acc, r.val)
  IN IF ~r.ok \/ r.rest = <<>> THEN ParseFail
     ELSE CASE Head(r.rest).tk = "]" -> ParseOk(Arr(elems), Tail(r.rest))
            [] Head(r.rest).tk = "," -> ParseElements(Tail(r.rest), elems)
            [] OTHER -> ParseFail

\* JSON.parse(text): [threw, val]; a SyntaxError unless the text is exactly one value.
JSONparse(text) ==
  LET r == ParseValue(SelectSeq(text, NotSpace))
  IN IF r.ok /\ r.rest = <<>> THEN [threw |-> FALSE, val |-> r.val]
     ELSE [threw |-> TRUE, val |-> Undef]

\* JSON.stringify(value): members whose value is undefined are left out, an
\* undefined or NaN element or NaN value is written null.
RECURSIVE JSONstringify(_)
RECURSIVE StringifyMembers(_, _, _)
RECURSIVE StringifyElements(_, _)
JSONstringify(v) ==
  CASE v.t \in {"undef", "null", "nan"} -> <<Lit(Null)>>
    [] v.t \in {"bool", "num", "str"} -> <<Lit(v)>>
    [] v.t = "obj" -> <<Punct("{")>> \o StringifyMembers(v.kids, 1, TRUE) \o <<Punct("}")>>
    [] OTHER -> <<Punct("[")>> \o StringifyElements(v.kids, 1) \o <<Punct("]")>>
StringifyMembers(kids, i, first) ==
  IF i > Len(kids) THEN <<>>
  ELSE IF kids[i].v.t = "undef" THEN StringifyMembers(kids, i + 1, first)
  ELSE (IF first THEN <<>> ELSE <<Punct(",")>>)
       \o <<Lit(Str(<<kids[i].k>>)), Punct(":")>> \o JSONstringify(kids[i].v)
       \o StringifyMembers(kids, i + 1, FALSE)
StringifyElements(kids, i) ==
  IF i > Len(kids) THEN <<>>
  ELSE (IF i > 1 THEN <<Punct(",")>> ELSE <<>>)
       \o JSONstringify(kids[i].v) \o StringifyElements(kids, i + 1)

----------------------------------------------------------------------------
(* The request body: req.body is either a value (absent = undefined, or     *)
(* what the platform parsed) or a string, held as its JSON text.            *)

ValueBody(v) == [kind |-> "value", val |-> v, text |-> <<>>]
TextBody(ts) == [kind |-> "text", val |-> Undef, text |-> ts]

\* !body
BodyFalsy(b) == IF b.kind = "text" THEN b.text = <<>> ELSE ~Truthy(b.val)

\* normaliseBody that hands a string body on unparsed
normaliseBodyUnparsed(b) ==
  IF BodyFalsy(b) THEN [threw |-> FALSE, val |-> Obj(<<>>)]
  ELSE IF b.kind = "text" THEN [threw |-> FALSE, val |-> Str(<<"text">>)]
  ELSE [threw |-> FALSE, val |-> b.val]

\* normaliseBody: [threw, val]
normaliseBody(b) ==
  IF BodyFalsy(b) THEN [threw |-> FALSE, val |-> Obj(<<>>)]
  ELSE IF b.kind = "text" THEN JSONparse(b.text)
  ELSE [threw |-> FALSE, val |-> b.val]

ALLOWED_METHODS == {"POST", "OPTIONS"}

\* ensureConfigured throws
NotConfigured(dom, tok) == ~dom \/ ~tok

MsgName == "customer.name is required."
MsgPhone == "customer.phone is required."
MsgEmail == "customer.email is required."
MsgAddress == "customer.address is required."
MsgItems == "cart.items must contain at least one item."
MsgObject == "Payload must be a JSON object."
MsgNoLines == "No valid line items were provided."

Require(field, msg) == IF ~Truthy(field) THEN <<msg>> ELSE <<>>

ItemsMissing(items) == ~Truthy(items) \/ items.t # "arr" \/ Len(items.kids) = 0

\* validatePayload: [threw, errors]; reading a member of a null customer or cart
\* throws a TypeError (the destructuring default replaces undefined only).
validatePayload(p) ==
  IF ~Truthy(p) \/ TypeOf(p) # "object" THEN [threw |-> FALSE, errors |-> <<MsgObject>>]
  ELSE LET customer == Default(Get(p, "customer"), Obj(<<>>))
           cart == Default(Get(p, "cart"), Obj(<<>>))
       IN IF Throws(customer) \/ Throws(cart) THEN [threw |-> TRUE, errors |-> <<>>]
          ELSE [threw |-> FALSE,
                errors |-> Require(Get(customer, "name"), MsgName)
                           \o Require(Get(customer, "phone"), MsgPhone)
                           \o Require(Get(customer, "email"), MsgEmail)
                           \o Require(Get(customer, "address"), MsgAddress)
                           \o (IF ItemsMissing(Get(cart, "items")) THEN <<MsgItems>> ELSE <<>>)]

\* cart.items.map(mapLineItem)
MapAll(items) == [i \in 1..Len(items) |-> mapLineItem(items[i])]

\* mapLineItems without the filter
mapLineItemsUnfiltered(items) == MapAll(items)

\* cart.items.map(mapLineItem).filter(Boolean)
mapLineItems(items) == SelectSeq(MapAll(items), Truthy)

----------------------------------------------------------------------------
(* Responses and the draft order *)

Resp(status, error) ==
  [status |-> status, hasBody |-> TRUE, error |-> error, message |-> "",
   details |-> <<>>, upstreamStatus |-> 0, success |-> FALSE,
   draftOrderId |-> Undef, invoiceUrl |-> Undef]

MethodNotAllowed == Resp(405, "method_not_allowed")
Preflight == [Resp(204, "") EXCEPT !.hasBody = FALSE]
ServerNotConfigured ==
  [Resp(500, "server_not_configured") EXCEPT !.message = "Shopify credentials are not configured"]
InvalidJson == [Resp(400, "invalid_json") EXCEPT !.message = "SyntaxError"]
InvalidPayload(details) == [Resp(400, "invalid_payload") EXCEPT !.details = details]
\* ShopifyError that passes the upstream body on as the message
ShopifyErrorLeaks(status, errorBody) ==
  [Resp(502, "shopify_error") EXCEPT !.upstreamStatus = status, !.message = errorBody]

ShopifyError(status, errorBody) ==
  [Resp(502, "shopify_error") EXCEPT !.upstreamStatus = status,
                                     !.message = "Failed to create draft order."]
InternalError(message) == [Resp(500, "internal_error") EXCEPT !.message = message]
Success(data) ==
  [Resp(200, "") EXCEPT !.success = TRUE,
                        !.draftOrderId = OptGet(OptGet(data, "draft_order"), "id"),
                        !.invoiceUrl = OptGet(OptGet(data, "draft_order"), "invoice_url")]

RECURSIVE JoinParts(_, _)
JoinParts(parts, sep) ==
  IF Len(parts) = 0 THEN <<>>
  ELSE IF Len(parts) = 1 THEN parts[1]
  ELSE parts[1] \o <<sep>> \o JoinParts(Tail(parts), sep)

NotePart(label, v) == IF Truthy(v) THEN <<(<<label>> \o ToStr(v))>> ELSE <<>>

noteParts(customer) ==
  <<(<<"Quote request from ">> \o ToStr(Get(customer, "name")))>>
  \o NotePart("Phone: ", Get(customer, "phone"))
  \o NotePart("Email: ", Get(customer, "email"))
  \o NotePart("Comment: ", Get(customer, "comment"))

Address(customer) ==
  Obj(<<KV("name", Get(customer, "name")), KV("address1", Get(customer, "address")),
        KV("phone", Get(customer, "phone"))>>)

NoteAttribute(name, value) == Obj(<<KV("name", Str(<<name>>)), KV("value", value)>>)

\* draftOrderPayload, for a context that is not null
draftOrderPayload(customer, cart, context, items) ==
  Obj(<<KV("draft_order", Obj(<<
    KV("tags", Str(<<"quote-request">>)),
    KV("email", Get(customer, "email")),
    KV("note", Str(JoinParts(noteParts(customer), " | "))),
    KV("shipping_address", Address(customer)),
    KV("billing_address", Address(customer)),
    KV("note_attributes", Arr(
        <<NoteAttribute("request_source",
                        OrElse(Get(context, "source"), Str(<<"request-quote-form">>))),
          NoteAttribute("request_comment", OrElse(Get(customer, "comment"), Str(<<>>)))>>
        \o (IF Truthy(Get(cart, "note"))
            THEN <<NoteAttribute("cart_note", Get(cart, "note"))>> ELSE <<>>))),
    KV("line_items", Arr(items))>>))>>)

----------------------------------------------------------------------------
(* The handler up to its first await: what it has sent and where it stands. *)

Outcome(at, p, items, d, text, n, sends) ==
  [pc |-> at, payload |-> p, lineItems |-> items, draft |-> d, sent |-> text,
   calls |-> n, response |-> sends]

Reply(p, r) == Outcome("done", p, <<>>, Undef, <<>>, 0, <<r>>)

\* An exception outside every try block rejects the handler's promise: nothing is sent.
Crash(p, items) == Outcome("crashed", p, items, Undef, <<>>, 0, <<>>)

CallUpstream(p, items, d) == Outcome("fetching", p, items, d, JSONstringify(d), 1, <<>>)

\* lines 127-179: map the items, assemble the draft order, issue the call
submit(p) ==
  LET customer == Get(p, "customer")
      cart == Get(p, "cart")
      context == Default(Get(p, "context"), Obj(<<>>))
      items == mapLineItems(Elems(Get(cart, "items")))
  IN IF Len(items) = 0 THEN Reply(p, InvalidPayload(<<MsgNoLines>>))
     ELSE IF Throws(context) THEN Crash(p, items)
     ELSE CallUpstream(p, items, draftOrderPayload(customer, cart, context, items))

\* lines 122-125
validated(p) ==
  LET v == validatePayload(p)
  IN IF v.threw THEN Crash(p, <<>>)
     ELSE IF Len(v.errors) # 0 THEN Reply(p, InvalidPayload(v.errors))
     ELSE submit(p)

\* lines 115-120
parsed(b) ==
  LET nb == normaliseBody(b)
  IN IF nb.threw THEN Reply(Undef, InvalidJson) ELSE validated(nb.val)

\* handler that parses the body ahead of the configuration guard
handlerParsesFirst(m, b, dom, tok) ==
  IF m \notin ALLOWED_METHODS THEN Reply(Undef, MethodNotAllowed)
  ELSE IF m = "OPTIONS" THEN Reply(Undef, Preflight)
  ELSE IF normaliseBody(b).threw THEN Reply(Undef, InvalidJson)
  ELSE IF NotConfigured(dom, tok) THEN Reply(Undef, ServerNotConfigured)
  ELSE parsed(b)

\* lines 98-113
handler(m, b, dom, tok) ==
  IF m \notin ALLOWED_METHODS THEN Reply(Undef, MethodNotAllowed)
  ELSE IF m = "OPTIONS" THEN Reply(Undef, Preflight)
  ELSE IF NotConfigured(dom, tok) THEN Reply(Undef, ServerNotConfigured)
  ELSE parsed(b)

----------------------------------------------------------------------------
(* Inputs *)

MaxItems == 3

T(c) == Str(<<c>>)

ValidCustomer ==
  <<KV("name", T("A")), KV("phone", T("1")), KV("email", T("e")), KV("address", T("X"))>>

\* Undef stands for a member that is absent.
Customers ==
  {Undef, Null, Obj(ValidCustomer), Obj(ValidCustomer \o <<KV("comment", T("c"))>>),
   Obj(<<KV("name", T("A")), KV("address", T("X"))>>)}

CartItems ==
  {Null,
   Obj(<<KV("variant_id", T("V")), KV("quantity", Num(2))>>),
   Obj(<<KV("product_id", T("P")), KV("price", Num(1500))>>)}

ItemLists == UNION {[1..n -> CartItems] : n \in 0..MaxItems}

Carts ==
  {Undef, Null, Obj(<<>>), Obj(<<KV("items", T("x"))>>)}
  \cup {Obj(<<KV("items", Arr(l))>>) : l \in ItemLists}
  \cup {Obj(<<KV("items", Arr(l)), KV("note", T("n"))>>) : l \in [1..1 -> CartItems]}

Contexts == {Undef, Null, Obj(<<KV("source", T("w"))>>)}

Member(k, v) == IF v = Undef THEN <<>> ELSE <<KV(k, v)>>

ObjectPayloads ==
  {Obj(Member("customer", cu) \o Member("cart", ca) \o Member("context", co)) :
     cu \in Customers, ca \in Carts, co \in Contexts}

\* what a platform-parsed JSON body can be besides an object
OtherPayloads == {Null, Num(5), Bool(FALSE), Arr(<<>>)}

Payloads == ObjectPayloads \cup OtherPayloads

SampleText == JSONstringify(Obj(<<KV("customer", Obj(ValidCustomer))>>))

\* strings that are no JSON text: the proper prefixes of one (the empty string
\* among them), white space alone, and stray or trailing tokens
BrokenTexts ==
  {SubSeq(SampleText, 1, k) : k \in 0..(Len(SampleText) - 1)}
  \cup {<<Punct("ws")>>, <<Punct("}")>>, <<Lit(Num(1)), Lit(Num(2))>>,
        <<Punct("["), Punct(","), Punct("]")>>,
        <<Punct("{"), Lit(Num(1)), Punct(":"), Lit(Num(2)), Punct("}")>>,
        <<Punct("{"), Lit(T("a")), Punct(":"), Lit(Num(2)), Punct(","), Punct("}")>>}

Bodies ==
  {ValueBody(Undef)} \cup {ValueBody(p) : p \in Payloads}
  \cup {TextBody(JSONstringify(p)) : p \in Payloads}
  \cup {TextBody(<<Punct("ws")>> \o JSONstringify(Obj(<<>>)))}
  \cup {TextBody(t) : t \in BrokenTexts}

Methods == {"POST", "OPTIONS", "GET"}

UpstreamStatuses == {200, 201, 404, 422, 500}

ErrorBodies == {"", "{\"errors\":{\"email\":[\"is invalid\"]}}", "Bad Gateway"}

UpstreamData ==
  {Null, Num(3), Obj(<<>>), Obj(<<KV("draft_order", Null)>>),
   Obj(<<KV("draft_order", Obj(<<KV("id", Num(7)), KV("invoice_url", T("u"))>>))>>)}

----------------------------------------------------------------------------
(* The state machine *)

\* no item drawn for mapLineItem on its own
NoItem == Val("none", 0, <<>>, <<>>)

NoUpstream == [status |-> 0, ok |-> FALSE, read |-> "none", text |-> ""]
NoBody == ValueBody(Undef)

Idle ==
  /\ pc = "idle"
  /\ payload = Undef
  /\ lineItems = <<>>
  /\ draft = Undef
  /\ sent = <<>>
  /\ calls = 0
  /\ upstream = NoUpstream
  /\ response = <<>>
  /\ logged = <<>>

\* The module is loaded, the environment read once, and the platform holds a
\* request (req.method, req.body) it is about to call the handler with.
Init ==
  /\ domainSet \in BOOLEAN
  /\ tokenSet \in BOOLEAN
  /\ method \in Methods
  /\ body \in Bodies
  /\ Idle
  /\ mItem = NoItem
  /\ mLine = Undef

\* module.exports(req, res), from its call to its first await or its return
Invoke ==
  /\ pc = "idle"
  /\ LET o == handler(method, body, domainSet, tokenSet)
     IN /\ pc' = o.pc
        /\ payload' = o.payload
        /\ lineItems' = o.lineItems
        /\ draft' = o.draft
        /\ sent' = o.sent
        /\ calls' = o.calls
        /\ response' = o.response
  /\ UNCHANGED <<domainSet, tokenSet, method, body, upstream, logged, mItem, mLine>>

LogEntry(what, status, text) == [what |-> what, status |-> status, text |-> text]

Finish(r) ==
  /\ pc' = "done"
  /\ response' = Append(response, r)

\* await fetch(...) rejects: the catch block answers
FetchRejects ==
  /\ pc = "fetching"
  /\ Finish(InternalError("fetch failed"))
  /\ logged' = Append(logged, LogEntry("Draft order creation failed", 0, "fetch failed"))
  /\ UNCHANGED <<domainSet, tokenSet, method, body, payload, lineItems, draft, sent,
                 calls, upstream, mItem, mLine>>

\* await fetch(...) resolves with a response of status st
FetchResponds(st) ==
  /\ pc = "fetching"
  /\ pc' = "responded"
  /\ upstream' = [status |-> st, ok |-> st \in 200..299, read |-> "pending", text |-> ""]
  /\ UNCHANGED <<domainSet, tokenSet, method, body, payload, lineItems, draft, sent,
                 calls, response, logged, mItem, mLine>>

\* !response.ok: await response.text() resolves
ErrorBodyRead(errorBody) ==
  /\ pc = "responded"
  /\ ~upstream.ok
  /\ Finish(ShopifyError(upstream.status, errorBody))
  /\ upstream' = [upstream EXCEPT !.read = "ok", !.text = errorBody]
  /\ logged' = Append(logged, LogEntry("Shopify API error", upstream.status, errorBody))
  /\ UNCHANGED <<domainSet, tokenSet, method, body, payload, lineItems, draft, sent,
                 calls, mItem, mLine>>

\* response.ok: await response.json() resolves
DataRead(data) ==
  /\ pc = "responded"
  /\ upstream.ok
  /\ Finish(Success(data))
  /\ upstream' = [upstream EXCEPT !.read = "ok"]
  /\ UNCHANGED <<domainSet, tokenSet, method, body, payload, lineItems, draft, sent,
                 calls, logged, mItem, mLine>>

\* await response.text() or await response.json() rejects: the catch block answers
BodyReadFails ==
  /\ pc = "responded"
  /\ Finish(InternalError("body unreadable"))
  /\ upstream' = [upstream EXCEPT !.read = "failed"]
  /\ logged' = Append(logged, LogEntry("Draft order creation failed", 0, "body unreadable"))
  /\ UNCHANGED <<domainSet, tokenSet, method, body, payload, lineItems, draft, sent,
                 calls, mItem, mLine>>

Next ==
  \/ Invoke
  \/ FetchRejects
  \/ \E st \in UpstreamStatuses : FetchResponds(st)
  \/ \E e \in ErrorBodies : ErrorBodyRead(e)
  \/ \E d \in UpstreamData : DataRead(d)
  \/ BodyReadFails

Spec == Init /\ [][Next]_vars

----------------------------------------------------------------------------
(* mapLineItem on its own: one item is drawn and mapped. *)

QuantityInputs ==
  {Undef, Null, Num(2), Num(0), Num(-3), Str(<<" ", "1", "2", " ">>), Str(<<"a">>),
   Str(<<"-", "3">>), Bool(TRUE)}

VariantInputs == {Undef, T("V"), Str(<<>>)}

ProductInputs == {Undef, T("P"), Num(0)}

PriceInputs ==
  {Undef, Null, Num(1500), Num(0), Num(-250), Str(<<"a">>), Str(<<"1", "2", "5", "0">>)}

FinalPriceInputs == {Undef, Null, Num(999), Num(0), Str(<<"x">>)}

TitleInputs == {Undef, T("T")}

ProductTitleInputs == {Undef, T("PT")}

PropertiesInputs ==
  {Undef, Obj(<<KV("a", T(" "))>>), T("s"),
   Obj(<<KV("a", T("x")), KV("b", Null), KV("c", Num(7))>>)}

PrimitiveItems == {Null, Num(0), Bool(FALSE), Str(<<>>), Bool(TRUE), Num(5), T("x"), Arr(<<>>)}

MakeItem(q, vi, pi, pr, fp, ti, pt, pp) ==
  Obj(Member("quantity", q) \o Member("variant_id", vi) \o Member("product_id", pi)
      \o Member("price", pr) \o Member("final_price", fp) \o Member("title", ti)
      \o Member("product_title", pt) \o Member("properties", pp))

MapInit ==
  /\ domainSet = TRUE
  /\ tokenSet = TRUE
  /\ method = ""
  /\ body = NoBody
  /\ Idle
  /\ \/ mItem \in PrimitiveItems
     \/ \E q \in QuantityInputs, vi \in VariantInputs, pi \in ProductInputs,
           pr \in PriceInputs, fp \in FinalPriceInputs, ti \in TitleInputs,
           pt \in ProductTitleInputs, pp \in PropertiesInputs :
           mItem = MakeItem(q, vi, pi, pr, fp, ti, pt, pp)
  /\ mLine = Undef

\* mapLineItem(item)
MapOne ==
  /\ mItem # NoItem
  /\ mLine = Undef
  /\ mLine' = mapLineItem(mItem)
  /\ UNCHANGED <<handlerVars, mItem>>

NextMap == MapOne

SpecMap == MapInit /\ [][NextMap]_vars

----------------------------------------------------------------------------
(* Vocabulary of the properties *)

Invoked == pc # "idle"
Configured == domainSet /\ tokenSet
ConfiguredPost == Invoked /\ method = "POST" /\ Configured

\* the body is a string that is no JSON text
BodyIsBrokenText == body.kind = "text" /\ JSONparse(body.text).threw

\* what the body yields as the payload, when it is not a broken text
Yielded == normaliseBody(body).val

IsObject(p) == p.t \in {"obj", "arr"}

\* the handler has answered once, with this status and error code
Answered(status, error) ==
  /\ pc = "done"
  /\ Len(response) = 1
  /\ response[1].status = status
  /\ response[1].error = error

\* a required customer field is not present and truthy (customer absent or null included)
FieldMissing(p, f) ==
  LET c == Get(p, "customer") IN Throws(c) \/ ~Truthy(Get(c, f))

\* cart.items is not a non-empty array (cart absent or null included)
ItemsRuleViolated(p) ==
  LET c == Get(p, "cart")
  IN Throws(c) \/ Get(c, "items").t # "arr" \/ Len(Get(c, "items").kids) = 0

ViolatedMessages(p) ==
  (IF FieldMissing(p, "name") THEN {MsgName} ELSE {})
  \cup (IF FieldMissing(p, "phone") THEN {MsgPhone} ELSE {})
  \cup (IF FieldMissing(p, "email") THEN {MsgEmail} ELSE {})
  \cup (IF FieldMissing(p, "address") THEN {MsgAddress} ELSE {})
  \cup (IF ItemsRuleViolated(p) THEN {MsgItems} ELSE {})

Details == IF Len(response) = 1 THEN response[1].details ELSE <<>>

\* the items of a cart that is an object with an items array
CartItemsOf(p) == Elems(OptGet(OptGet(p, "cart"), "items"))

NoItemMaps(p) == \A i \in 1..Len(CartItemsOf(p)) : ~Truthy(CartItemsOf(p)[i])

----------------------------------------------------------------------------
(* C1 -- as claimed: a configured POST whose body yields an object payload   *)
(* that violates at least one validation rule (customer or cart absent or    *)
(* null included) is answered 400 invalid_payload with exactly one details   *)
(* entry per violated rule, and no outbound call is made.                    *)
C1_EveryViolationListedOnce ==
  (ConfiguredPost /\ ~BodyIsBrokenText /\ IsObject(Yielded)
     /\ ViolatedMessages(Yielded) # {})
  => /\ Answered(400, "invalid_payload")
     /\ calls = 0
     /\ Len(Details) = Cardinality(ViolatedMessages(Yielded))
     /\ {Details[i] : i \in 1..Len(Details)} = ViolatedMessages(Yielded)

(* C2 -- as claimed: every invocation ends by sending exactly one response   *)
(* whose status and error code are among the enumerated ones; none ends in   *)
(* an uncaught exception without a response.                                 *)
EnumeratedAnswers ==
  {<<204, "">>, <<405, "method_not_allowed">>, <<500, "server_not_configured">>,
   <<400, "invalid_json">>, <<400, "invalid_payload">>, <<502, "shopify_error">>,
   <<500, "internal_error">>, <<200, "">>}

C2_ExactlyOneEnumeratedAnswer ==
  /\ pc # "crashed"
  /\ Len(response) <= 1
  /\ pc = "done" => /\ Len(response) = 1
                    /\ <<response[1].status, response[1].error>> \in EnumeratedAnswers
  /\ pc \in {"fetching", "responded"} => response = <<>>

(* C3 -- as claimed: at most one outbound call is issued, only for a         *)
(* configured POST whose body parsed, validated without errors and mapped    *)
(* to a non-empty list; a request whose cart.items is [] or whose items all  *)
(* map to nothing is answered 400 invalid_payload with no outbound call.     *)
C3_OneCallOnlyAfterEveryGate ==
  /\ calls <= 1
  /\ calls = 1 => /\ ConfiguredPost /\ ~BodyIsBrokenText /\ IsObject(Yielded)
                  /\ ViolatedMessages(Yielded) = {}
                  /\ ~NoItemMaps(Yielded)
  /\ (ConfiguredPost /\ ~BodyIsBrokenText /\ IsObject(Yielded)
        /\ OptGet(OptGet(Yielded, "cart"), "items").t = "arr" /\ NoItemMaps(Yielded))
     => Answered(400, "invalid_payload") /\ calls = 0

(* C4 -- the response is decided by the first failing gate in the order      *)
(* method (405), OPTIONS (204, no body), configuration (500                  *)
(* server_not_configured), body parsing (400 invalid_json), validation (400  *)
(* invalid_payload), empty mapped items (400 invalid_payload), outbound      *)
(* call; the first three whatever the configuration and the body are.        *)
C4_FirstFailingGateDecides ==
  Invoked =>
    CASE method \notin {"POST", "OPTIONS"} -> Answered(405, "method_not_allowed") /\ calls = 0
      [] method = "OPTIONS" -> Answered(204, "") /\ ~response[1].hasBody /\ calls = 0
      [] ~Configured -> Answered(500, "server_not_configured") /\ calls = 0
      [] BodyIsBrokenText /\ body.text # <<>> -> Answered(400, "invalid_json") /\ calls = 0
      [] OTHER ->
           response # <<>> =>
             IF ~IsObject(Yielded) \/ ViolatedMessages(Yielded) # {}
             THEN Answered(400, "invalid_payload") /\ Details # <<MsgNoLines>> /\ calls = 0
             ELSE IF NoItemMaps(Yielded)
             THEN Answered(400, "invalid_payload") /\ Details = <<MsgNoLines>> /\ calls = 0
             ELSE calls = 1 /\ (\/ Answered(502, "shopify_error")
                                \/ Answered(500, "internal_error")
                                \/ Answered(200, ""))

\* an unconfigured POST with an unparsable body has been answered server_not_configured
C4_Witness ==
  /\ method = "POST"
  /\ ~domainSet
  /\ BodyIsBrokenText /\ body.text # <<>>
  /\ Answered(500, "server_not_configured")

\* an object body and the string encoding it have the same outcome
SameAsItsEncoding ==
  (Invoked /\ body.kind = "value" /\ body.val.t = "obj")
  => LET o == handler(method, TextBody(JSONstringify(body.val)), domainSet, tokenSet)
     IN /\ o.payload = payload
        /\ o.lineItems = lineItems
        /\ o.sent = sent
        /\ o.calls = calls
        /\ o.calls = 0 => (o.pc = pc /\ o.response = response)

(* C5 -- as claimed: a configured POST whose body is a string that is not    *)
(* valid JSON, the empty string included, is answered 400 invalid_json; an   *)
(* object body and a string encoding it get the same response.               *)
C5_EveryBrokenTextIsInvalidJson ==
  /\ (ConfiguredPost /\ BodyIsBrokenText) => Answered(400, "invalid_json")
  /\ SameAsItsEncoding

(* C5 -- amended: a configured POST whose body is a non-empty string that is *)
(* not valid JSON is answered 400 invalid_json; the empty string is taken    *)
(* as the empty object and answered 400 invalid_payload with all five        *)
(* details; an object body and a string encoding it get the same response.   *)
C5_NonEmptyBrokenTextIsInvalidJson ==
  /\ (ConfiguredPost /\ BodyIsBrokenText /\ body.text # <<>>)
     => Answered(400, "invalid_json") /\ calls = 0
  /\ (ConfiguredPost /\ body.kind = "text" /\ body.text = <<>>)
     => /\ Answered(400, "invalid_payload")
        /\ Details = <<MsgName, MsgPhone, MsgEmail, MsgAddress, MsgItems>>
  /\ SameAsItsEncoding

\* a truncated JSON text has been answered invalid_json
C5_Witness ==
  /\ ConfiguredPost
  /\ BodyIsBrokenText /\ Len(body.text) > 3
  /\ Answered(400, "invalid_json")

\* the 502 answer for upstream status s: nothing in it comes from the upstream body
UpstreamFailure(s) ==
  [status |-> 502, hasBody |-> TRUE, error |-> "shopify_error",
   message |-> "Failed to create draft order.", details |-> <<>>,
   upstreamStatus |-> s, success |-> FALSE, draftOrderId |-> Undef,
   invoiceUrl |-> Undef]

(* C8 -- as claimed: when the outbound call returns a non-success status s,  *)
(* the handler responds 502 shopify_error with status s and the fixed        *)
(* message, whatever the upstream body is.                                   *)
C8_NonSuccessIsAlways502 ==
  (pc = "done" /\ upstream.status # 0 /\ ~upstream.ok)
  => response = <<UpstreamFailure(upstream.status)>>

(* C8 -- amended: when the outbound call returns a non-success status s and  *)
(* its body is read, the handler responds 502 shopify_error with status s    *)
(* and the fixed message, whatever the body is; when reading the body fails  *)
(* it responds 500 internal_error.                                           *)
C8_NonSuccessWithBodyReadIs502 ==
  (pc = "done" /\ upstream.status # 0 /\ ~upstream.ok)
  => IF upstream.read = "ok" THEN response = <<UpstreamFailure(upstream.status)>>
     ELSE upstream.read = "failed" /\ Answered(500, "internal_error")

\* upstream answered 422 with a non-empty body, which was read and logged
C8_Witness ==
  /\ pc = "done"
  /\ upstream.status = 422 /\ upstream.read = "ok" /\ upstream.text # ""
  /\ logged # <<>> /\ logged[Len(logged)].text = upstream.text
  /\ Answered(502, "shopify_error")

\* the line_items of the outbound request body, as the upstream parses it
SentLineItems == Elems(Get(Get(JSONparse(sent).val, "draft_order"), "line_items"))

(* C9 -- the line_items of the outbound payload are the cart items mapped    *)
(* in input order with the items that map to null removed: one line item or  *)
(* none per cart item, order preserved, never more than the cart items.      *)
C9_LineItemsAreMappedItemsInOrder ==
  calls = 1 =>
    LET items == CartItemsOf(payload)
        out == SentLineItems
        kept == {i \in 1..Len(items) : Truthy(items[i])}
    IN /\ Len(out) <= Len(items)
       /\ Len(out) = Cardinality(kept)
       /\ \A k \in 1..Len(out) :
            \E i \in kept : /\ Cardinality({j \in kept : j < i}) = k - 1
                            /\ out[k] = mapLineItem(items[i])

\* a call went out for a cart with a dropped item between two different kept ones
C9_Witness ==
  /\ calls = 1
  /\ Len(CartItemsOf(payload)) = 3
  /\ Truthy(CartItemsOf(payload)[1])
  /\ ~Truthy(CartItemsOf(payload)[2])
  /\ Truthy(CartItemsOf(payload)[3])
  /\ CartItemsOf(payload)[1] # CartItemsOf(payload)[3]
  /\ Len(SentLineItems) = 2
  /\ "variant_id" \in Keys(SentLineItems[1]) <=> "variant_id" \in Keys(CartItemsOf(payload)[1])

----------------------------------------------------------------------------
(* mapLineItem *)

Mapped == mLine.t = "obj"
HasVariant == Truthy(Get(mItem, "variant_id"))
HasProduct == Truthy(Get(mItem, "product_id"))
CoercedQuantity == ToNumber(Get(mItem, "quantity"))
CoercedPrice == ToNumber(Nullish(Get(mItem, "final_price"), Get(mItem, "price")))

\* an optional minus, one or more digits, a point, two digits
IsTwoDecimal(v) ==
  /\ v.t = "str"
  /\ LET cs == IF v.s # <<>> /\ Head(v.s) = "-" THEN Tail(v.s) ELSE v.s
     IN /\ Len(cs) >= 4
        /\ cs[Len(cs) - 2] = "."
        /\ \A i \in (1..Len(cs)) \ {Len(cs) - 2} : cs[i] \in DigitSet

(* C6 -- as claimed: the mapped quantity of a truthy cart item is the        *)
(* numeric coercion of item.quantity when that is a positive number and 1    *)
(* in every other case, so every quantity is a positive number.              *)
C6_QuantityPositiveElseOne ==
  Mapped =>
    /\ Get(mLine, "quantity") =
         (IF CoercedQuantity.t = "num" /\ CoercedQuantity.n > 0 THEN CoercedQuantity
          ELSE Num(1))
    /\ Get(mLine, "quantity").t = "num" /\ Get(mLine, "quantity").n > 0

(* C7 -- as claimed: an item with product_id and no variant_id carries a     *)
(* price exactly when final_price ?? price coerces to a number, computed     *)
(* from final_price when present and from price otherwise, and the price is  *)
(* always a two-decimal numeric string.                                      *)
C7_ProductPriceWhenCoercible ==
  (Mapped /\ HasProduct /\ ~HasVariant) =>
    /\ ("price" \in Keys(mLine)) <=> (CoercedPrice.t = "num")
    /\ "price" \in Keys(mLine) =>
         /\ IsTwoDecimal(Get(mLine, "price"))
         /\ Get(mLine, "price") = Str(ToFixed2OfHundredth(CoercedPrice.n))

(* C10 -- every mapped line item falls in one of three branches that fixes   *)
(* its fields: with variant_id it carries variant_id and never title, price  *)
(* or product_id; with product_id and no variant_id it carries product_id    *)
(* and a title and never variant_id; with neither it carries a title, no id, *)
(* and a price only when the coerced price is not NaN.                       *)
C10_BranchFixesFields ==
  Mapped =>
    /\ HasVariant =>
         /\ Get(mLine, "variant_id") = Get(mItem, "variant_id")
         /\ Keys(mLine) \cap {"title", "price", "product_id"} = {}
         /\ {"quantity", "variant_id"} \subseteq Keys(mLine)
         /\ Keys(mLine) \subseteq {"quantity", "properties", "variant_id"}
    /\ (~HasVariant /\ HasProduct) =>
         /\ Get(mLine, "product_id") = Get(mItem, "product_id")
         /\ {"quantity", "product_id", "title"} \subseteq Keys(mLine)
         /\ "variant_id" \notin Keys(mLine)
    /\ (~HasVariant /\ ~HasProduct) =>
         /\ {"quantity", "title"} \subseteq Keys(mLine)
         /\ Keys(mLine) \cap {"variant_id", "product_id"} = {}
         /\ "price" \in Keys(mLine) => CoercedPrice.t # "nan"

\* an item supplying variant_id, product_id, title and price has been mapped
C10_Witness ==
  /\ Mapped
  /\ HasVariant /\ HasProduct
  /\ {"title", "price"} \subseteq Keys(mItem)
  /\ Keys(mLine) = {"quantity", "variant_id"}

====
